---- MODULE Spec2Model ----
(***************************************************************************)
(* DuckDBManager (src/src/duckdb_project/main.py): a thin wrapper around   *)
(* one database connection.  The database engine is the external           *)
(* collaborator the wrapper calls (duckdb.connect, conn.sql, conn.close);  *)
(* it is modelled by the Engine* operators, at the points where the        *)
(* wrapper calls it.                                                       *)
(*                                                                         *)
(* Encodings.  A SQL text or a connection URL is the tuple of the pieces   *)
(* the f-string joins.  Python's None is the string "<None>" where the     *)
(* other values are strings (the token) and 0 where they are handles       *)
(* (self.conn).  A table catalog is a set of [name, rows] records.         *)
(***************************************************************************)
EXTENDS Integers, Sequences, FiniteSets, TLC

VARIABLES
    env,          \* the process environment: value of MOTHERDUCK_TOKEN
    fs,           \* the CSV files on disk: set of [path, rows] records
    eng,          \* the engine: handles, catalogs, hosted databases
    constructed,  \* a DuckDBManager instance exists
    use_motherduck, token, db_path, conn,   \* the instance's fields
    scope,        \* position relative to a with-block on the instance
    pending,      \* exception travelling out of the with-block body
    lastOp,       \* the method called last
    lastArg,      \* its arguments (tuple of strings)
    exc,          \* the exception that call raised to its caller
    ret,          \* the value that call returned
    lastSent      \* the statements that call passed to conn.sql: <<h, stmt>>

vars == <<env, fs, eng, constructed, use_motherduck, token, db_path, conn,
          scope, pending, lastOp, lastArg, exc, ret, lastSent>>

inst == <<use_motherduck, token, db_path>>

---------------------------------------------------------------------------
(* Bounds *)
MaxHandles == 2
MaxRows == 2

---------------------------------------------------------------------------
(* Values *)
None == "<None>"
NoConn == 0
NoExc == "none"
NoResult == <<>>

MemorySentinel == ":memory:"
DefaultDb == "demo_db"
MdDefaultDb == "my_db"
MdUrlPrefix == "md:?motherduck_token="
TokenVar == "MOTHERDUCK_TOKEN"

\* a target other than the sentinel: a local database file, or the name of a
\* hosted database
OtherPath == "analytics"
DbPaths == {MemorySentinel, OtherPath}
EnvTokens == {None, "", "tok"}
TableNames == {"sales", "sales_data"}
PersistentDbs == {OtherPath, MdDefaultDb, DefaultDb}

Row(c, q, p) == [category |-> c, quantity |-> q, price |-> p]

FixturePath == "sample_sales.csv"
MissingPath == "missing.csv"
GenPath == "gen.csv"

\* the contents a CSV file of at most MaxRows data rows may have
GenCategories == {"A", "B"}
GenValues == {1, 2}
GenRowKinds == {Row(c, q, p) : c \in GenCategories, q \in GenValues, p \in GenValues}
GenContents == UNION {[1..k -> GenRowKinds] : k \in 0..MaxRows}

\* the paths a caller passes: every file there is, and one there is not
CsvPaths(files) == {f.path : f \in files} \cup {MissingPath}

(* tests/fixtures/sample_sales.csv: ten data rows, three categories,       *)
(* Electronics with the highest revenue.                                   *)
SampleSales ==
    << Row("Electronics", 2, 500), Row("Furniture", 1, 300),
       Row("Electronics", 1, 800), Row("Appliances", 3, 100),
       Row("Furniture", 2, 150),   Row("Electronics", 4, 50),
       Row("Appliances", 1, 400),  Row("Furniture", 1, 200),
       Row("Electronics", 1, 300), Row("Appliances", 2, 50) >>

Fixtures == { [path |-> FixturePath, rows |-> SampleSales] }

---------------------------------------------------------------------------
(* Python helpers *)

\* bool(x) of a str-or-None
Truthy(x) == x \notin {None, ""}

\* os.getenv(name)
getenv(e, name) == IF name = TokenVar THEN e ELSE None

---------------------------------------------------------------------------
(* The engine *)

HasTable(cat, t) == \E e \in cat : e.name = t
TableRows(cat, t) == (CHOOSE e \in cat : e.name = t).rows
PutTable(cat, t, rows) ==
    {e \in cat : e.name # t} \cup {[name |-> t, rows |-> rows]}

FileReadable(files, p) == \E f \in files : f.path = p
FileRows(files, p) == (CHOOSE f \in files : f.path = p).rows

IsOpen(E, h) == h \in DOMAIN E.open /\ E.open[h]
IsHosted(E, h) == E.hosted[h]
Catalog(E, h) ==
    IF E.db[h] = MemorySentinel THEN E.mem[h] ELSE E.disk[E.db[h]]
SetCatalog(E, h, cat) ==
    IF E.db[h] = MemorySentinel
    THEN [E EXCEPT !.mem[h] = cat]
    ELSE [E EXCEPT !.disk[E.db[h]] = cat]

EngineInit ==
    [ open   |-> <<>>,
      hosted |-> <<>>,
      db     |-> <<>>,
      mem    |-> <<>>,
      disk   |-> [d \in PersistentDbs |-> {}],
      mds    |-> {MdDefaultDb} ]

NewHandle(E, isHosted, db) ==
    [E EXCEPT !.open   = Append(@, TRUE),
              !.hosted = Append(@, isHosted),
              !.db     = Append(@, db),
              !.mem    = Append(@, {})]

\* duckdb.connect(url): the outcomes [exc, eng, h]
EngineConnect(E, url) ==
    LET h == Len(E.open) + 1 IN
    IF Len(url) = 2 /\ url[1] = MdUrlPrefix
    THEN { [exc |-> NoExc, eng |-> NewHandle(E, TRUE, MdDefaultDb), h |-> h],
           [exc |-> "IOException", eng |-> E, h |-> NoConn] }
    ELSE IF url[1] = MemorySentinel
    THEN { [exc |-> NoExc, eng |-> NewHandle(E, FALSE, MemorySentinel), h |-> h] }
    ELSE { [exc |-> NoExc, eng |-> NewHandle(E, FALSE, url[1]), h |-> h],
           [exc |-> "IOException", eng |-> E, h |-> NoConn] }

\* conn.close(): closing a closed connection is a no-op
EngineClose(E, h) == [E EXCEPT !.open[h] = FALSE]

---------------------------------------------------------------------------
(* The SQL the wrapper builds, and the engine's reading of it *)

CreateDatabaseSql(name) == <<"CREATE DATABASE IF NOT EXISTS", name>>
UseSql(name) == <<"USE", name>>
\* the two names in each other's place
LoadCsvSql_Swapped(table_name, csv_path) ==
    <<"CREATE TABLE", csv_path, "AS SELECT * FROM read_csv_auto('", table_name, "')">>

LoadCsvSql(table_name, csv_path) ==
    <<"CREATE TABLE", table_name, "AS SELECT * FROM read_csv_auto('", csv_path, "')">>
SummarySql ==
    <<"SELECT category, COUNT(*) as total_transactions, SUM(quantity) as total_items_sold, SUM(price * quantity) as total_revenue FROM",
      "sales", "GROUP BY category ORDER BY total_revenue DESC">>
CopySql(motherduck_table, local_table) ==
    <<"CREATE OR REPLACE TABLE", motherduck_table, "AS SELECT * FROM", local_table>>
Select42Sql == <<"SELECT 42 as number">>
InvalidSql == <<"INVALID SQL">>
CountSql(t) == <<"SELECT COUNT(*) as count FROM", t>>

\* the statements a caller passes to execute_query directly
Queries == {Select42Sql, InvalidSql} \cup {CountSql(t) : t \in TableNames}

RECURSIVE SumQuantity(_)
SumQuantity(rows) ==
    IF rows = <<>> THEN 0 ELSE Head(rows).quantity + SumQuantity(Tail(rows))

RECURSIVE SumRevenue(_)
SumRevenue(rows) ==
    IF rows = <<>> THEN 0
    ELSE Head(rows).price * Head(rows).quantity + SumRevenue(Tail(rows))

Categories(rows) == {rows[i].category : i \in DOMAIN rows}
RowsOf(rows, c) == SelectSeq(rows, LAMBDA r : r.category = c)

\* one result row: <<category, total_transactions, total_items_sold, total_revenue>>
SummaryRow(rows, c) ==
    <<c, Len(RowsOf(rows, c)), SumQuantity(RowsOf(rows, c)), SumRevenue(RowsOf(rows, c))>>

\* GROUP BY category
GroupBy(rows) == {SummaryRow(rows, c) : c \in Categories(rows)}

\* the sort with its direction reversed
OrderByRevenueAsc(groups) ==
    {s \in [1..Cardinality(groups) -> groups] :
        /\ \A i, j \in DOMAIN s : i # j => s[i] # s[j]
        /\ \A i, j \in DOMAIN s : i < j => s[i][4] <= s[j][4]}

\* ORDER BY total_revenue DESC: every order of the groups the sort may return
\* (rows of equal revenue come in either order)
OrderByRevenueDesc(groups) ==
    {s \in [1..Cardinality(groups) -> groups] :
        /\ \A i, j \in DOMAIN s : i # j => s[i] # s[j]
        /\ \A i, j \in DOMAIN s : i < j => s[i][4] >= s[j][4]}

Ok(E, result) == [exc |-> NoExc, result |-> result, eng |-> E]
Err(E, e) == [exc |-> e, result |-> NoResult, eng |-> E]

\* the engine's answers to a well-formed statement on an open handle
EngineRun(E, files, h, stmt) ==
    LET cat == Catalog(E, h) IN
    IF stmt = Select42Sql THEN {Ok(E, <<<<42>>>>)}
    ELSE IF Len(stmt) = 2 /\ stmt[1] = CountSql("")[1] THEN
        IF HasTable(cat, stmt[2])
        THEN {Ok(E, <<<<Len(TableRows(cat, stmt[2]))>>>>)}
        ELSE {Err(E, "CatalogException")}
    ELSE IF Len(stmt) = 2 /\ stmt[1] = CreateDatabaseSql("")[1] THEN
        IF IsHosted(E, h)
        THEN {Ok([E EXCEPT !.mds = @ \cup {stmt[2]}], NoResult)}
        ELSE {Err(E, "ParserException")}
    ELSE IF Len(stmt) = 2 /\ stmt[1] = UseSql("")[1] THEN
        IF IsHosted(E, h) /\ stmt[2] \in E.mds
        THEN {Ok([E EXCEPT !.db[h] = stmt[2]], NoResult)}
        ELSE {Err(E, "CatalogException")}
    ELSE IF Len(stmt) = 5 /\ stmt[1] = LoadCsvSql("", "")[1] THEN
        IF HasTable(cat, stmt[2]) THEN {Err(E, "CatalogException")}
        ELSE IF ~FileReadable(files, stmt[4]) THEN {Err(E, "IOException")}
        ELSE {Ok(SetCatalog(E, h, PutTable(cat, stmt[2], FileRows(files, stmt[4]))), NoResult)}
    ELSE IF Len(stmt) = 4 /\ stmt[1] = CopySql("", "")[1] THEN
        IF HasTable(cat, stmt[4])
        THEN {Ok(SetCatalog(E, h, PutTable(cat, stmt[2], TableRows(cat, stmt[4]))), NoResult)}
        ELSE {Err(E, "CatalogException")}
    ELSE IF Len(stmt) = 3 /\ stmt[1] = SummarySql[1] THEN
        IF HasTable(cat, stmt[2])
        THEN {Ok(E, s) : s \in OrderByRevenueDesc(GroupBy(TableRows(cat, stmt[2])))}
        ELSE {Err(E, "CatalogException")}
    ELSE {Err(E, "ParserException")}

\* conn.sql(stmt): the outcomes [exc, result, eng].  A closed handle refuses
\* every statement; a statement on a hosted handle may also fail in transit.
EngineSql(E, files, h, stmt) ==
    IF ~IsOpen(E, h) THEN {Err(E, "ConnectionException")}
    ELSE EngineRun(E, files, h, stmt)
         \cup (IF IsHosted(E, h) THEN {Err(E, "IOException")} ELSE {})

---------------------------------------------------------------------------
(* DuckDBManager: what each method computes *)

\* the token tested with `is None`: an empty token passes
InitRaises_NoneOnly(hosted, tok) == hosted /\ tok = None

\* __init__: the hosted branch raises ValueError when the token is missing
InitRaises(hosted, tok) == hosted /\ ~Truthy(tok)

\* __init__: the value stored in self.db_path
EffectiveDbPath(path, hosted) == IF hosted THEN DefaultDb ELSE path

\* __init__: the value stored in self.token (the attribute is set in the
\* hosted branch only; it is read in the hosted branch of connect only)
StoredToken(e, hosted) == IF hosted THEN getenv(e, TokenVar) ELSE None

\* connect: the outcomes [exc, eng, conn, sent]; conn is the value self.conn
\* holds when connect returns or raises
Connect(hosted, tok, path, c, E, files) ==
    IF hosted
    THEN UNION {
        IF o1.exc # NoExc
        THEN {[exc |-> o1.exc, eng |-> E, conn |-> c, sent |-> <<>>]}
        ELSE UNION {
            IF o2.exc # NoExc
            THEN {[exc |-> o2.exc, eng |-> o2.eng, conn |-> o1.h,
                   sent |-> <<<<o1.h, CreateDatabaseSql(path)>>>>]}
            ELSE {[exc |-> o3.exc, eng |-> o3.eng, conn |-> o1.h,
                   sent |-> <<<<o1.h, CreateDatabaseSql(path)>>, <<o1.h, UseSql(path)>>>>]
                  : o3 \in EngineSql(o2.eng, files, o1.h, UseSql(path))}
            : o2 \in EngineSql(o1.eng, files, o1.h, CreateDatabaseSql(path))}
        : o1 \in EngineConnect(E, <<MdUrlPrefix, tok>>)}
    ELSE {[exc |-> o.exc, eng |-> o.eng,
           conn |-> IF o.exc = NoExc THEN o.h ELSE c, sent |-> <<>>]
          : o \in EngineConnect(E, <<path>>)}

\* close without its guard: None has no close()
Close_Unguarded(c, E) ==
    IF c # NoConn
    THEN [exc |-> NoExc, eng |-> EngineClose(E, c)]
    ELSE [exc |-> "AttributeError", eng |-> E]

\* close: `if self.conn: self.conn.close()`; the outcome [exc, eng]
Close(c, E) ==
    IF c # NoConn
    THEN [exc |-> NoExc, eng |-> EngineClose(E, c)]
    ELSE [exc |-> NoExc, eng |-> E]

\* __exit__ closing only when the body raised nothing
Exit_OnlyOnSuccess(c, E, exc_val) ==
    IF exc_val = NoExc
    THEN [exc |-> NoExc, eng |-> (IF c # NoConn THEN EngineClose(E, c) ELSE E)]
    ELSE [exc |-> NoExc, eng |-> E]

\* __exit__(exc_type, exc_val, exc_tb): close, whatever the body raised
Exit(c, E, exc_val) == Close(c, E)

\* __exit__ returning True
ExitSuppresses_True == TRUE

\* __exit__ returns None: the exception of the body is not suppressed
ExitSuppresses == FALSE

\* execute_query reopening a closed connection before it runs the statement
ExecuteQuery_Reconnects(c, E, files, query) ==
    IF c = NoConn
    THEN {[exc |-> "AttributeError", result |-> NoResult, eng |-> E, sent |-> <<>>]}
    ELSE {[exc |-> o.exc, result |-> o.result, eng |-> o.eng, sent |-> <<<<c, query>>>>]
          : o \in EngineSql([E EXCEPT !.open[c] = TRUE], files, c, query)}

\* execute_query: the outcomes [exc, result, eng, sent]
ExecuteQuery(c, E, files, query) ==
    IF c = NoConn
    THEN {[exc |-> "AttributeError", result |-> NoResult, eng |-> E, sent |-> <<>>]}
    ELSE {[exc |-> o.exc, result |-> o.result, eng |-> o.eng, sent |-> <<<<c, query>>>>]
          : o \in EngineSql(E, files, c, query)}

\* load_csv_data returns None
LoadCsvData(c, E, files, csv_path, table_name) ==
    {[o EXCEPT !.result = NoResult]
     : o \in ExecuteQuery(c, E, files, LoadCsvSql(table_name, csv_path))}

GetSalesSummary(c, E, files) == ExecuteQuery(c, E, files, SummarySql)

\* upload_to_motherduck without its mode check
UploadToMotherduck_Unchecked(hosted, c, E, files, local_table, motherduck_table) ==
    {[o EXCEPT !.result = NoResult]
     : o \in ExecuteQuery(c, E, files, CopySql(motherduck_table, local_table))}

\* upload_to_motherduck returns None
UploadToMotherduck(hosted, c, E, files, local_table, motherduck_table) ==
    IF ~hosted
    THEN {[exc |-> "ValueError", result |-> NoResult, eng |-> E, sent |-> <<>>]}
    ELSE {[o EXCEPT !.result = NoResult]
          : o \in ExecuteQuery(c, E, files, CopySql(motherduck_table, local_table))}

---------------------------------------------------------------------------
(* The state machine *)

BoolStr(b) == IF b THEN "True" ELSE "False"

InitCommon ==
    /\ eng = EngineInit
    /\ constructed = FALSE
    /\ use_motherduck = FALSE
    /\ token = None
    /\ db_path = None
    /\ conn = NoConn
    /\ scope = "out"
    /\ pending = NoExc
    /\ lastOp = "none"
    /\ lastArg = <<>>
    /\ exc = NoExc
    /\ ret = NoResult
    /\ lastSent = <<>>

Init == InitCommon /\ env \in EnvTokens /\ fs = Fixtures

\* a method may be called on the instance outside a with-block or in its body
Callable == constructed /\ scope \in {"out", "in"}

\* the call raises e (or returns, e = NoExc); an exception raised in the body
\* of a with-block starts unwinding it
Raise(e) ==
    /\ exc' = e
    /\ IF scope = "in" /\ e # NoExc
       THEN scope' = "unwinding" /\ pending' = e
       ELSE UNCHANGED <<scope, pending>>

\* DuckDBManager(db_path, use_motherduck)
Construct(path, hosted) ==
    /\ ~constructed
    /\ lastOp' = "__init__"
    /\ lastArg' = <<path, BoolStr(hosted)>>
    /\ ret' = NoResult
    /\ lastSent' = <<>>
    /\ IF InitRaises(hosted, getenv(env, TokenVar))
       THEN /\ exc' = "ValueError"
            /\ UNCHANGED <<constructed, use_motherduck, token, db_path, conn>>
       ELSE /\ exc' = NoExc
            /\ constructed' = TRUE
            /\ use_motherduck' = hosted
            /\ token' = StoredToken(env, hosted)
            /\ db_path' = EffectiveDbPath(path, hosted)
            /\ conn' = NoConn
    /\ UNCHANGED <<env, fs, eng, scope, pending>>

\* db.connect()
ConnectCall ==
    /\ Callable
    /\ Len(eng.open) < MaxHandles
    /\ \E o \in Connect(use_motherduck, token, db_path, conn, eng, fs) :
        /\ eng' = o.eng
        /\ conn' = o.conn
        /\ lastSent' = o.sent
        /\ Raise(o.exc)
    /\ lastOp' = "connect"
    /\ lastArg' = <<>>
    /\ ret' = NoResult
    /\ UNCHANGED <<env, fs, constructed, use_motherduck, token, db_path>>

\* `with db:` entered: __enter__ calls connect; when connect raises the block
\* is not entered and __exit__ does not run
EnterScope ==
    /\ constructed /\ scope = "out"
    /\ Len(eng.open) < MaxHandles
    /\ \E o \in Connect(use_motherduck, token, db_path, conn, eng, fs) :
        /\ eng' = o.eng
        /\ conn' = o.conn
        /\ lastSent' = o.sent
        /\ exc' = o.exc
        /\ scope' = IF o.exc = NoExc THEN "in" ELSE "out"
    /\ lastOp' = "__enter__"
    /\ lastArg' = <<>>
    /\ ret' = NoResult
    /\ UNCHANGED <<env, fs, constructed, use_motherduck, token, db_path, pending>>

\* db.close()
CloseCall ==
    /\ Callable
    /\ eng' = Close(conn, eng).eng
    /\ lastOp' = "close"
    /\ lastArg' = <<>>
    /\ ret' = NoResult
    /\ lastSent' = <<>>
    /\ Raise(Close(conn, eng).exc)
    /\ UNCHANGED <<env, fs, constructed, use_motherduck, token, db_path, conn>>

\* the with-block is left, by the end of its body or by an exception of it:
\* __exit__ calls close, and the exception goes on to the caller of the block
ExitScope ==
    /\ scope \in {"in", "unwinding"}
    /\ eng' = Exit(conn, eng, pending).eng
    /\ scope' = "out"
    /\ exc' = IF Exit(conn, eng, pending).exc # NoExc THEN Exit(conn, eng, pending).exc
              ELSE IF ExitSuppresses THEN NoExc ELSE pending
    /\ pending' = NoExc
    /\ lastOp' = "__exit__"
    /\ lastArg' = <<>>
    /\ ret' = NoResult
    /\ lastSent' = <<>>
    /\ UNCHANGED <<env, fs, constructed, use_motherduck, token, db_path, conn>>

\* the part the statement-running methods share
Apply(o) ==
    /\ eng' = o.eng
    /\ ret' = o.result
    /\ lastSent' = o.sent
    /\ Raise(o.exc)
    /\ UNCHANGED <<env, fs, constructed, use_motherduck, token, db_path, conn>>

\* db.execute_query(query)
ExecuteQueryCall(query) ==
    /\ Callable
    /\ lastOp' = "execute_query"
    /\ lastArg' = query
    /\ \E o \in ExecuteQuery(conn, eng, fs, query) : Apply(o)

\* db.load_csv_data(csv_path, table_name)
LoadCsvDataCall(csv_path, table_name) ==
    /\ Callable
    /\ lastOp' = "load_csv_data"
    /\ lastArg' = <<csv_path, table_name>>
    /\ \E o \in LoadCsvData(conn, eng, fs, csv_path, table_name) : Apply(o)

\* db.get_sales_summary()
GetSalesSummaryCall ==
    /\ Callable
    /\ lastOp' = "get_sales_summary"
    /\ lastArg' = <<>>
    /\ \E o \in GetSalesSummary(conn, eng, fs) : Apply(o)

\* db.upload_to_motherduck(local_table, motherduck_table)
UploadToMotherduckCall(local_table, motherduck_table) ==
    /\ Callable
    /\ lastOp' = "upload_to_motherduck"
    /\ lastArg' = <<local_table, motherduck_table>>
    /\ \E o \in UploadToMotherduck(use_motherduck, conn, eng, fs,
                                   local_table, motherduck_table) : Apply(o)

Next ==
    \/ \E path \in DbPaths, hosted \in BOOLEAN : Construct(path, hosted)
    \/ ConnectCall
    \/ EnterScope
    \/ CloseCall
    \/ ExitScope
    \/ \E query \in Queries : ExecuteQueryCall(query)
    \/ \E csv_path \in CsvPaths(fs), table_name \in TableNames :
          LoadCsvDataCall(csv_path, table_name)
    \/ GetSalesSummaryCall
    \/ \E local_table, motherduck_table \in TableNames :
          UploadToMotherduckCall(local_table, motherduck_table)

Spec == Init /\ [][Next]_vars

---------------------------------------------------------------------------
(* Local sessions over a CSV file of any small content *)

InitGen ==
    /\ InitCommon
    /\ env = None
    /\ \E rows \in GenContents :
          fs = Fixtures \cup {[path |-> GenPath, rows |-> rows]}

NextGen ==
    \/ Construct(MemorySentinel, FALSE)
    \/ EnterScope
    \/ ExitScope
    \/ \E csv_path \in CsvPaths(fs) : LoadCsvDataCall(csv_path, "sales")
    \/ GetSalesSummaryCall
    \/ ExecuteQueryCall(CountSql("sales"))

SpecGen == InitGen /\ [][NextGen]_vars

---------------------------------------------------------------------------
(* Properties *)

Open(E, c) == c # NoConn /\ IsOpen(E, c)
Closed(E, c) == c # NoConn /\ ~IsOpen(E, c)

\* C1: a with-block whose __enter__ succeeded is left only through __exit__,
\* after a normal end of the body as after an exception of it, and the
\* instance's connection is closed when it has been left.
C1_ScopeExitCloses ==
    [][ /\ (scope # "out" /\ scope' = "out") => (lastOp' = "__exit__" /\ Closed(eng', conn'))
        /\ (scope = "in" /\ exc' # NoExc) => scope' = "unwinding"
        /\ (scope = "unwinding") => scope' = "out" ]_vars

\* a body that raised has been left, and the connection is closed
C1_Witness ==
    lastOp = "__exit__" /\ exc = "CatalogException" /\ Closed(eng, conn)

\* C2: when Start (connect, __enter__) raises, no handle opened during that
\* Start is still open.  The statements of a Start go to the handle it opened.
C2_FailedStartLeavesNothingOpen ==
    (lastOp \in {"connect", "__enter__"} /\ exc # NoExc)
        => \A i \in DOMAIN lastSent : ~IsOpen(eng, lastSent[i][1])

\* C3 as stated: once the instance's connection has been closed, no step
\* gives the instance an open connection again.
C3_ClosedIsTerminal ==
    [][ Closed(eng, conn) => ~Open(eng', conn') ]_vars

\* C3 as amended: a closed handle is never open again; an instance whose
\* connection is closed gets an open connection again only by connect or
\* __enter__, which give it a handle that did not exist before.
C3_ClosedHandleStaysClosed ==
    [][ /\ \A h \in DOMAIN eng.open : ~eng.open[h] => ~eng'.open[h]
        /\ (Closed(eng, conn) /\ Open(eng', conn'))
              => (lastOp' \in {"connect", "__enter__"} /\ conn' \notin DOMAIN eng.open) ]_vars

\* the instance is open again after its first connection was closed
C3_Witness ==
    /\ Open(eng, conn)
    /\ \E h \in DOMAIN eng.open : h < conn /\ ~eng.open[h]
    /\ lastOp \in {"execute_query", "load_csv_data"} /\ exc = NoExc

\* C4: on a local instance close never raises and changes no field; after
\* it the connection is not open; on a never-opened or already closed
\* connection it changes nothing in the engine either.
C4_CloseIdempotent ==
    [][ (lastOp' = "close" /\ ~use_motherduck)
          => /\ exc' = NoExc
             /\ conn' = conn /\ inst' = inst
             /\ ~IsOpen(eng', conn')
             /\ (~Open(eng, conn) => eng' = eng) ]_vars

C4_Witness ==
    lastOp = "close" /\ ~use_motherduck /\ Closed(eng, conn)

\* C5: on an instance built with use_motherduck false, upload_to_motherduck
\* raises ValueError, passes no statement to the connection and changes
\* neither the instance nor the engine (connections and tables).
C5_UploadNeedsHostedMode ==
    [][ (lastOp' = "upload_to_motherduck" /\ ~use_motherduck)
          => /\ exc' = "ValueError"
             /\ lastSent' = <<>>
             /\ eng' = eng /\ conn' = conn /\ inst' = inst ]_vars

\* the refused upload named a table that exists on an open connection
C5_Witness ==
    /\ lastOp = "upload_to_motherduck" /\ ~use_motherduck /\ exc = "ValueError"
    /\ Open(eng, conn) /\ HasTable(Catalog(eng, conn), lastArg[1])

\* C6: a hosted instance holds a non-empty token; without a non-empty token
\* in the environment the hosted constructor raises ValueError, no instance
\* comes to exist and no hosted connection is ever opened.
C6_HostedNeedsToken ==
    /\ (constructed /\ use_motherduck) => Truthy(token)
    /\ ~Truthy(env) => \A h \in DOMAIN eng.open : ~eng.hosted[h]
    /\ (lastOp = "__init__" /\ lastArg[2] = "True" /\ ~Truthy(env))
          => (exc = "ValueError" /\ ~constructed /\ eng = EngineInit)

C6_Witness ==
    lastOp = "__init__" /\ lastArg[2] = "True" /\ env = "" /\ exc = "ValueError"

\* C7: execute_query on a connection passes exactly the text it was given,
\* once, and its result or exception is the engine's; SELECT 42 on an open
\* local connection returns 42; an exception raised in a with-block body
\* leaves the block as the same exception.
C7_PassThrough ==
    [][ /\ (lastOp' = "execute_query" /\ conn # NoConn)
            => /\ lastSent' = << <<conn, lastArg'>> >>
               /\ \E o \in EngineSql(eng, fs, conn, lastArg') :
                     exc' = o.exc /\ ret' = o.result /\ eng' = o.eng
               /\ (lastArg' = Select42Sql /\ IsOpen(eng, conn) /\ ~use_motherduck)
                     => (exc' = NoExc /\ ret' = << <<42>> >>)
        /\ (lastOp' = "execute_query" /\ scope = "in" /\ exc' # NoExc)
            => (scope' = "unwinding" /\ pending' = exc')
        /\ (scope = "unwinding") => (lastOp' = "__exit__" /\ exc' = pending) ]_vars

\* the parser's refusal of INVALID SQL has left the with-block
C7_Witness ==
    lastOp = "__exit__" /\ exc = "ParserException" /\ scope = "out"

\* the rows of one category, counted and summed from the table itself
IndicesOf(rows, c) == {k \in DOMAIN rows : rows[k].category = c}

RECURSIVE SumAt(_, _, _)
SumAt(rows, S, column) ==
    IF S = {} THEN 0
    ELSE LET k == CHOOSE x \in S : TRUE IN
         (IF column = "quantity" THEN rows[k].quantity
          ELSE rows[k].price * rows[k].quantity) + SumAt(rows, S \ {k}, column)

\* C8: get_sales_summary on an open connection holding sales returns one row
\* per category of sales, with the count, the summed quantity and the summed
\* price * quantity of the category's rows, in non-increasing order of
\* revenue, so that no category has more revenue than the first row.
C8_SummaryRows ==
    [][ (lastOp' = "get_sales_summary" /\ Open(eng, conn)
            /\ HasTable(Catalog(eng, conn), "sales"))
          => LET rows == TableRows(Catalog(eng, conn), "sales")
                 cats == {rows[k].category : k \in DOMAIN rows}
                 r == ret'
             IN /\ (use_motherduck \/ exc' = NoExc)
                /\ exc' = NoExc =>
                    /\ Len(r) = Cardinality(cats)
                    /\ {r[i][1] : i \in DOMAIN r} = cats
                    /\ \A i \in DOMAIN r :
                         /\ r[i][2] = Cardinality(IndicesOf(rows, r[i][1]))
                         /\ r[i][3] = SumAt(rows, IndicesOf(rows, r[i][1]), "quantity")
                         /\ r[i][4] = SumAt(rows, IndicesOf(rows, r[i][1]), "revenue")
                    /\ \A i, j \in DOMAIN r : i < j => r[i][4] >= r[j][4]
                    /\ \A c \in cats :
                         r[1][4] >= SumAt(rows, IndicesOf(rows, c), "revenue") ]_vars

\* two categories, the one of more revenue first though it is second by name
C8_Witness ==
    /\ lastOp = "get_sales_summary" /\ exc = NoExc /\ Len(ret) = 2
    /\ ret[1][1] = "B" /\ ret[1][4] > ret[2][4]

\* C9: load_csv_data on an open connection: when the table does not exist
\* and the call returns, the table holds exactly the data rows of the file
\* and a row count on it answers their number (10 for the fixture); when the
\* table exists the call raises and nothing changes.
C9_LoadCsv ==
    [][ /\ (lastOp' = "load_csv_data" /\ Open(eng, conn))
            => LET p == lastArg'[1]
                   t == lastArg'[2]
                   was == Catalog(eng, conn)
                   now == Catalog(eng', conn)
               IN IF HasTable(was, t)
                  THEN exc' # NoExc /\ eng' = eng
                  ELSE /\ exc' = NoExc =>
                            /\ FileReadable(fs, p)
                            /\ HasTable(now, t)
                            /\ TableRows(now, t) = FileRows(fs, p)
                            /\ \A q \in EngineSql(eng', fs, conn, CountSql(t)) :
                                  q.exc = NoExc => q.result = << <<Len(FileRows(fs, p))>> >>
                       /\ exc' # NoExc => eng' = eng
                       /\ (FileReadable(fs, p) /\ ~use_motherduck) => exc' = NoExc
        /\ (lastOp' = "execute_query" /\ lastArg' = CountSql("sales") /\ exc' = NoExc
              /\ TableRows(Catalog(eng, conn), "sales") = SampleSales)
            => ret' = << <<10>> >> ]_vars

\* the fixture was loaded into sales and the count answered 10
C9_Witness ==
    /\ lastOp = "execute_query" /\ lastArg = CountSql("sales") /\ exc = NoExc
    /\ ret = << <<10>> >>

\* C10: the constructor keeps the caller's db_path, except that in hosted
\* mode the in-memory sentinel is replaced by the default database name.
C10_EffectiveDbPath ==
    (lastOp = "__init__" /\ exc = NoExc)
        => db_path = (IF lastArg[2] = "True" /\ lastArg[1] = MemorySentinel
                      THEN DefaultDb ELSE lastArg[1])

====
